---- MODULE Spec2Model ----
(***************************************************************************)
(* Model of src/src/main.py: the ticker/exchange loader (get_tics), the    *)
(* data-file reader (read_dat), the fixed-width decoder (line_to_dict) and *)
(* the assembler (create_data_dict) with its two validators.               *)
(*                                                                         *)
(* A Python str that the code slices, strips, splits or lower-cases is a   *)
(* sequence of one-character strings.  Column names, which the code only   *)
(* compares and uses as keys, are TLA+ strings.  A Python value that may   *)
(* be None is None (the empty tuple) or Some(v) (the one-element tuple).   *)
(***************************************************************************)
EXTENDS Integers, Sequences, FiniteSets

VARIABLES
    op,                \* which function of main.py this behaviour calls
    pc,                \* position of the call
    exc,               \* the exception that ended the call, or "none"
    \* get_tics
    lookup,            \* the lines of the file at pth, None when it cannot be opened
    idx,               \* index of the next line the for-loop of get_tics reads
    tic_map,           \* tic_map of get_tics
    \* line_to_dict
    line,              \* the argument of line_to_dict
    decoded,           \* the value line_to_dict returned, None before it returns
    \* create_data_dict
    tic_exchange_dic,  \* argument: ticker -> exchange
    tickers_lst,       \* argument: None or Some(list of tickers)
    col_arg,           \* argument col_lst as the caller passed it
    files,             \* DATDIR: ticker -> None (no file) or Some(raw lines)
    col_lst,           \* the local col_lst (rebound at line 146)
    target_ticker,     \* the local target_ticker
    k,                 \* index of the next ticker of the dict comprehension
    acc,               \* the dict the comprehension of line 173 has built so far
    ret,               \* the returned document, None while nothing is returned
    calls              \* the calls create_data_dict has made, in call order

vars == <<op, pc, exc, lookup, idx, tic_map, line, decoded, tic_exchange_dic,
          tickers_lst, col_arg, files, col_lst, target_ticker, k, acc, ret, calls>>

ticsVars == <<lookup, idx, tic_map>>
decodeVars == <<line, decoded>>
assembleVars == <<tic_exchange_dic, tickers_lst, col_arg, files, col_lst,
                  target_ticker, k, acc, ret, calls>>

-----------------------------------------------------------------------------
(* Optional values and Python truthiness *)

None == <<>>
Some(v) == <<v>>
Get(o) == o[1]

\* bool(x) for x None or a list: None and [] are falsy
Truthy(o) == o # None /\ Len(Get(o)) > 0

Range(s) == {s[n] : n \in 1..Len(s)}

Min(a, b) == IF a < b THEN a ELSE b

Rep(c, n) == [j \in 1..n |-> c]

EmptyDict == [x \in {} |-> x]

\* d[key] = value on a Python dict
DictSet(d, key, value) ==
    [x \in DOMAIN d \cup {key} |-> IF x = key THEN value ELSE d[x]]

-----------------------------------------------------------------------------
(* str methods *)

UpperLetters ==
    <<"A","B","C","D","E","F","G","H","I","J","K","L","M",
      "N","O","P","Q","R","S","T","U","V","W","X","Y","Z">>
LowerLetters ==
    <<"a","b","c","d","e","f","g","h","i","j","k","l","m",
      "n","o","p","q","r","s","t","u","v","w","x","y","z">>

LowerChar(c) ==
    IF \E n \in 1..Len(UpperLetters) : UpperLetters[n] = c
    THEN LowerLetters[CHOOSE n \in 1..Len(UpperLetters) : UpperLetters[n] = c]
    ELSE c

\* s.lower()
Lower(s) == [n \in 1..Len(s) |-> LowerChar(s[n])]

\* the characters str.strip() removes (those of them the model's lines use)
Whitespace == {" ", "\t", "\n", "\r"}

\* s.lstrip(chars), s.rstrip(chars), s.strip(chars)
RECURSIVE LStripChars(_, _)
LStripChars(s, chars) ==
    IF s # <<>> /\ Head(s) \in chars THEN LStripChars(Tail(s), chars) ELSE s

RECURSIVE RStripChars(_, _)
RStripChars(s, chars) ==
    IF s # <<>> /\ s[Len(s)] \in chars
    THEN RStripChars(SubSeq(s, 1, Len(s) - 1), chars)
    ELSE s

StripChars(s, chars) == RStripChars(LStripChars(s, chars), chars)

\* s.strip(); RStrip is s.rstrip()
RStrip(s) == RStripChars(s, Whitespace)
Strip(s) == StripChars(s, Whitespace)

\* s.split(sep) for a one-character sep: always at least one part
RECURSIVE Split(_, _)
Split(s, sep) ==
    IF \A n \in 1..Len(s) : s[n] # sep
    THEN <<s>>
    ELSE LET p == CHOOSE n \in 1..Len(s) :
                      s[n] = sep /\ \A m \in 1..(n - 1) : s[m] # sep
         IN  <<SubSeq(s, 1, p - 1)>> \o Split(SubSeq(s, p + 1, Len(s)), sep)

\* s[start:stop] for 0 <= start <= stop: indices are clamped to len(s);
\* PySliceUnshifted is s[start:stop - start]
PySliceUnshifted(s, start, stop) == SubSeq(s, start + 1, Min(stop - start, Len(s)))
PySlice(s, start, stop) == SubSeq(s, start + 1, Min(stop, Len(s)))

-----------------------------------------------------------------------------
(* get_tics, lines 38-47 *)

QUOTE == "\""

\* part[-1].strip('"').lower() and part[0].strip('"').lower(), lines 44-45
TickerCode(part) == Lower(StripChars(part[Len(part)], {QUOTE}))
TickerExchange(part) == Lower(StripChars(part[1], {QUOTE}))

\* tic_map[ticker_code] = ticker_exchange, line 46; FirstWins is the same
\* under "if ticker_code not in tic_map"
FirstWins(m, part) ==
    IF TickerCode(part) \in DOMAIN m THEN m
    ELSE DictSet(m, TickerCode(part), TickerExchange(part))
Contribute(m, part) == DictSet(m, TickerCode(part), TickerExchange(part))

\* the body of the for-loop, lines 42-46
GetTicsBody(m, ln) ==
    LET part == Split(Strip(ln), "=")
    IN  IF Len(part) >= 2 THEN Contribute(m, part) ELSE m

\* the lines of TICKERS.txt: "EXCHANGE"="TICKER" and what surrounds it
NL == <<"\n">>
Quoted(s) == <<QUOTE>> \o s \o <<QUOTE>>

NYSE == <<"N","Y","S","E">>
Nasdaq == <<"N","a","s","d","a","q">>
nasdaq == <<"n","a","s","d","a","q">>
IBM == <<"I","B","M">>
ibm == <<"i","b","m">>
aapl == <<"a","a","p","l">>
baba == <<"b","a","b","a">>

\* <<exchange, ticker>> as the file writes them
Pairs == {<<NYSE, IBM>>, <<nasdaq, ibm>>, <<Nasdaq, aapl>>}

\* whitespace <<before the line, before '=', after '=', after the line>>
NoPad == <<<<>>, <<>>, <<>>, <<>>>>
OuterPad == <<<<" ", "\t">>, <<>>, <<>>, <<" ", "\r">>>>
EqPad == <<<<>>, <<" ">>, <<" ">>, <<>>>>
PadShapes == {NoPad, OuterPad, EqPad}

PaddedLine(E, T, w) ==
    w[1] \o Quoted(E) \o w[2] \o <<"=">> \o w[3] \o Quoted(T) \o w[4] \o NL
WellFormedLine(E, T) == PaddedLine(E, T, NoPad)

BlankLine == NL
NoEqLine == Quoted(NYSE) \o <<" ">> \o Quoted(IBM) \o NL
TwoEqLine == Quoted(NYSE) \o <<"=">> \o Quoted(aapl) \o <<"=">> \o Quoted(IBM) \o NL

LookupLines ==
    {PaddedLine(p[1], p[2], w) : p \in Pairs, w \in PadShapes}
        \cup {BlankLine, NoEqLine, TwoEqLine}

MaxLookupLines == 3

SeqsUpTo(S, n) == UNION {[1..m -> S] : m \in 0..n}

\* the variables of the functions a behaviour does not call
IdleTics == lookup = None /\ idx = 0 /\ tic_map = EmptyDict
IdleDecode == line = <<>> /\ decoded = None
IdleAssemble ==
    /\ tic_exchange_dic = EmptyDict /\ tickers_lst = None /\ col_arg = None
    /\ files = EmptyDict /\ col_lst = None /\ target_ticker = <<>>
    /\ k = 0 /\ acc = EmptyDict /\ ret = None /\ calls = <<>>

\* the state in which get_tics(pth) is entered
InitTics ==
    /\ op = "get_tics" /\ pc = "open" /\ exc = "none"
    /\ lookup \in {None} \cup {Some(f) : f \in SeqsUpTo(LookupLines, MaxLookupLines)}
    /\ idx = 0 /\ tic_map = EmptyDict
    /\ IdleDecode /\ IdleAssemble

\* lines 38-40: tic_map = {} and open(pth), which raises when there is no file
GetTicsOpen ==
    /\ op = "get_tics" /\ pc = "open"
    /\ IF lookup = None
       THEN pc' = "raised" /\ exc' = "IOError" /\ idx' = idx
       ELSE pc' = "loop" /\ exc' = exc /\ idx' = 1
    /\ tic_map' = EmptyDict
    /\ UNCHANGED <<op, lookup, decodeVars, assembleVars>>

\* lines 41-46: one iteration of the for-loop
GetTicsLine ==
    /\ op = "get_tics" /\ pc = "loop"
    /\ idx <= Len(Get(lookup))
    /\ tic_map' = GetTicsBody(tic_map, Get(lookup)[idx])
    /\ idx' = idx + 1
    /\ UNCHANGED <<op, pc, exc, lookup, decodeVars, assembleVars>>

\* line 47: return tic_map
GetTicsReturn ==
    /\ op = "get_tics" /\ pc = "loop"
    /\ idx > Len(Get(lookup))
    /\ pc' = "returned"
    /\ UNCHANGED <<op, exc, ticsVars, decodeVars, assembleVars>>

NextTics == GetTicsOpen \/ GetTicsLine \/ GetTicsReturn

SpecTics == InitTics /\ [][NextTics]_vars

-----------------------------------------------------------------------------
(* line_to_dict, lines 59-88 *)

COLUMNS == <<"Volume", "Date", "Adj Close", "Close", "Open", "High">>
COLWIDTHS ==
    [col \in Range(COLUMNS) |->
        CASE col = "Volume" -> 14
          [] col = "Date" -> 11
          [] col = "Adj Close" -> 19
          [] col = "Close" -> 10
          [] col = "Open" -> 6
          [] col = "High" -> 20]

\* the for-loop of lines 83-86 from column n on, with the cursor at start
RECURSIVE LineToDictFrom(_, _, _, _)
LineToDictFrom(ln, n, start, result) ==
    IF n > Len(COLUMNS) THEN result
    ELSE LET col == COLUMNS[n]
             width == COLWIDTHS[col]
         IN  LineToDictFrom(ln, n + 1, start + width,
                            DictSet(result, col, PySlice(ln, start, start + width)))

line_to_dict(ln) == LineToDictFrom(ln, 1, 0, EmptyDict)

\* lines fed to the decoder: every length up to MaxLineLen, two contents
MaxLineLen == 82
Digits == <<"0","1","2","3","4","5","6","7","8","9">>
Padding == <<" ", " ", "7">>
PatternLine(n, a) == [j \in 1..n |-> a[((j - 1) % Len(a)) + 1]]
DecodeLines == {PatternLine(n, a) : n \in 0..MaxLineLen, a \in {Digits, Padding}}

\* the state in which line_to_dict(line) is entered
InitDecode ==
    /\ op = "line_to_dict" /\ pc = "call" /\ exc = "none"
    /\ line \in DecodeLines /\ decoded = None
    /\ IdleTics /\ IdleAssemble

LineToDict ==
    /\ op = "line_to_dict" /\ pc = "call"
    /\ decoded' = Some(line_to_dict(line))
    /\ pc' = "returned"
    /\ UNCHANGED <<op, exc, line, ticsVars, assembleVars>>

NextDecode == LineToDict

SpecDecode == InitDecode /\ [][NextDecode]_vars

-----------------------------------------------------------------------------
(* read_dat, lines 50-57 *)

\* data.append(line.strip()) for each line of an opened file;
\* ReadDatKeepIndent is the same with line.rstrip()
ReadDatKeepIndent(raw) == [n \in 1..Len(raw) |-> RStripChars(raw[n], Whitespace)]
ReadDat(raw) == [n \in 1..Len(raw) |-> Strip(raw[n])]

-----------------------------------------------------------------------------
(* verify_tickers, lines 90-99, and verif_cols, lines 101-110: TRUE when the
   call raises *)

verify_tickers(dic, lst) ==
    IF lst # None
    THEN IF Len(Get(lst)) > 0
         THEN \E n \in 1..Len(Get(lst)) : Get(lst)[n] \notin DOMAIN dic
         ELSE TRUE
    ELSE FALSE

verif_cols(lst) ==
    IF lst # None
    THEN IF Len(Get(lst)) > 0
         THEN \E n \in 1..Len(Get(lst)) : Get(lst)[n] \notin Range(COLUMNS)
         ELSE TRUE
    ELSE FALSE

-----------------------------------------------------------------------------
(* create_data_dict, lines 145-173 *)

\* lines 162-165: the record kept for one decoded line; KeepAllColumns is
\* the same without the projection
KeepAllColumns(raw_line, cols) == raw_line
FilterTicker(raw_line, cols) ==
    IF Truthy(cols)
    THEN [key \in {c \in Range(Get(cols)) : c \in DOMAIN raw_line} |-> raw_line[key]]
    ELSE raw_line

\* lines 157-171 once read_dat has returned raw_data
ProcessTickerData(ticker, raw_data, cols, dic) ==
    [exchange |-> Lower(dic[ticker]),
     data |-> [n \in 1..Len(raw_data) |-> FilterTicker(line_to_dict(raw_data[n]), cols)]]

\* the orders list(tic_exchange_dic.keys()) can have
Orderings(S) == {s \in [1..Cardinality(S) -> S] : Range(s) = S}

\* the data file of the example of the specification, and two other lines
ExampleLine ==
    Rep(" ", 8) \o <<"1","0","0">>
        \o <<"2","0","2","0","-","0","1","-","0","1"," ">>
        \o Rep(" ", 3) \o <<"1","5","0",".">> \o Rep("0", 11) \o NL
BlankDataLine == NL
FullLine == PatternLine(80, Digits) \o NL
DataLines == {ExampleLine, BlankDataLine}

FullMap == [t \in {aapl, baba} |-> IF t = aapl THEN nasdaq ELSE NYSE]
ColumnNames == {"Date", "Close", "NotACol"}

MaxTickers == 2
MaxCols == 2
MaxDataLines == 2

\* the state in which create_data_dict(tic_exchange_dic, tickers_lst, col_lst)
\* is entered
Init ==
    /\ op = "create_data_dict" /\ pc = "columns" /\ exc = "none"
    /\ tic_exchange_dic \in {[t \in D |-> FullMap[t]] : D \in SUBSET DOMAIN FullMap}
    /\ tickers_lst \in {None} \cup {Some(l) : l \in SeqsUpTo(DOMAIN FullMap, MaxTickers)}
    /\ col_arg \in {None} \cup {Some(l) : l \in SeqsUpTo(ColumnNames, MaxCols)}
    /\ \E fa \in {None} \cup {Some(f) : f \in SeqsUpTo(DataLines, MaxDataLines)},
          fb \in {None, Some(<<FullLine>>)} :
           files = [t \in {aapl, baba} |-> IF t = aapl THEN fa ELSE fb]
    /\ col_lst = col_arg
    /\ target_ticker = <<>> /\ k = 0 /\ acc = EmptyDict /\ ret = None /\ calls = <<>>
    /\ IdleTics /\ IdleDecode

\* lines 145-148
CheckColumns ==
    /\ op = "create_data_dict" /\ pc = "columns"
    /\ col_lst' = IF ~Truthy(col_lst) THEN None ELSE col_lst
    /\ IF Truthy(col_lst)
       THEN /\ calls' = Append(calls, <<"verif_cols">>)
            /\ IF verif_cols(col_lst)
               THEN pc' = "raised" /\ exc' = "Exception"
               ELSE pc' = "tickers" /\ exc' = exc
       ELSE calls' = calls /\ pc' = "tickers" /\ exc' = exc
    /\ UNCHANGED <<op, ticsVars, decodeVars, tic_exchange_dic, tickers_lst, col_arg,
                   files, target_ticker, k, acc, ret>>

\* lines 150-152; CheckTickersUnverified is the same without line 152
CheckTickersUnverified ==
    /\ op = "create_data_dict" /\ pc = "tickers"
    /\ target_ticker' \in IF Truthy(tickers_lst) THEN {Get(tickers_lst)}
                          ELSE Orderings(DOMAIN tic_exchange_dic)
    /\ calls' = calls /\ pc' = "comprehension" /\ exc' = exc /\ k' = 1
    /\ UNCHANGED <<op, ticsVars, decodeVars, tic_exchange_dic, tickers_lst, col_arg,
                   files, col_lst, acc, ret>>

CheckTickers ==
    /\ op = "create_data_dict" /\ pc = "tickers"
    /\ target_ticker' \in IF Truthy(tickers_lst) THEN {Get(tickers_lst)}
                          ELSE Orderings(DOMAIN tic_exchange_dic)
    /\ IF Truthy(tickers_lst)
       THEN /\ calls' = Append(calls, <<"verify_tickers">>)
            /\ IF verify_tickers(tic_exchange_dic, tickers_lst)
               THEN pc' = "raised" /\ exc' = "Exception" /\ k' = k
               ELSE pc' = "comprehension" /\ exc' = exc /\ k' = 1
       ELSE calls' = calls /\ pc' = "comprehension" /\ exc' = exc /\ k' = 1
    /\ UNCHANGED <<op, ticsVars, decodeVars, tic_exchange_dic, tickers_lst, col_arg,
                   files, col_lst, acc, ret>>

\* line 173, one ticker of the comprehension: process_ticker_data, lines
\* 155-171; ProcessTickerSkipMissing is the same with a missing file skipped
ProcessTickerSkipMissing ==
    /\ op = "create_data_dict" /\ pc = "comprehension"
    /\ k <= Len(target_ticker)
    /\ LET ticker == target_ticker[k]
       IN  /\ calls' = Append(calls, <<"read_dat", ticker>>)
           /\ IF files[ticker] = None
              THEN pc' = pc /\ exc' = exc /\ acc' = acc /\ k' = k + 1
              ELSE /\ acc' = DictSet(acc, ticker,
                                ProcessTickerData(ticker, ReadDat(Get(files[ticker])),
                                                  col_lst, tic_exchange_dic))
                   /\ k' = k + 1 /\ pc' = pc /\ exc' = exc
    /\ UNCHANGED <<op, ticsVars, decodeVars, tic_exchange_dic, tickers_lst, col_arg,
                   files, col_lst, target_ticker, ret>>

ProcessTicker ==
    /\ op = "create_data_dict" /\ pc = "comprehension"
    /\ k <= Len(target_ticker)
    /\ LET ticker == target_ticker[k]
       IN  /\ calls' = Append(calls, <<"read_dat", ticker>>)
           /\ IF files[ticker] = None
              THEN pc' = "raised" /\ exc' = "IOError" /\ acc' = acc /\ k' = k
              ELSE IF ticker \notin DOMAIN tic_exchange_dic
              THEN pc' = "raised" /\ exc' = "KeyError" /\ acc' = acc /\ k' = k
              ELSE /\ acc' = DictSet(acc, ticker,
                                ProcessTickerData(ticker, ReadDat(Get(files[ticker])),
                                                  col_lst, tic_exchange_dic))
                   /\ k' = k + 1 /\ pc' = pc /\ exc' = exc
    /\ UNCHANGED <<op, ticsVars, decodeVars, tic_exchange_dic, tickers_lst, col_arg,
                   files, col_lst, target_ticker, ret>>

\* line 173: the comprehension is exhausted and its dict is returned
Return ==
    /\ op = "create_data_dict" /\ pc = "comprehension"
    /\ k > Len(target_ticker)
    /\ ret' = Some(acc)
    /\ pc' = "returned"
    /\ UNCHANGED <<op, exc, ticsVars, decodeVars, tic_exchange_dic, tickers_lst, col_arg,
                   files, col_lst, target_ticker, k, acc, calls>>

Next == CheckColumns \/ CheckTickers \/ ProcessTicker \/ Return

Spec == Init /\ [][Next]_vars

-----------------------------------------------------------------------------
(* Properties of get_tics *)

HasEq(ln) == \E n \in 1..Len(ln) : ln[n] = "="

\* the lines of the file the for-loop has consumed
Consumed == IF op = "get_tics" /\ lookup # None THEN 1..(idx - 1) ELSE {}
LookupLine(n) == Get(lookup)[n]

\* ln writes ticker T (in any letter case) after its last '='
NamesTicker(ln, T) ==
    \/ \E p \in Pairs, w \in PadShapes :
           ln = PaddedLine(p[1], p[2], w) /\ Lower(p[2]) = Lower(T)
    \/ ln = TwoEqLine /\ Lower(IBM) = Lower(T)

\* C6: every well-formed line "E"="T" the loop has consumed leaves
\* tic_map[lower(T)] = lower(E) unless a later consumed line names the same
\* ticker again (then the later line decides); a line without '=' adds no
\* entry, so the map has at most one key per consumed line with '=' and is
\* empty while no such line was consumed; and the loop raises nothing.
C6_LoaderMap ==
    op = "get_tics" =>
        /\ \A n \in Consumed : \A p \in Pairs :
               (/\ LookupLine(n) = WellFormedLine(p[1], p[2])
                /\ \A m \in Consumed : m > n => ~NamesTicker(LookupLine(m), p[2]))
               => /\ Lower(p[2]) \in DOMAIN tic_map
                  /\ tic_map[Lower(p[2])] = Lower(p[1])
        /\ Cardinality(DOMAIN tic_map)
               <= Cardinality({n \in Consumed : HasEq(LookupLine(n))})
        /\ (lookup # None => exc = "none")

\* C6 witness: the file "NYSE"="IBM", a line without '=', "nasdaq"="ibm" was
\* read to its end and the later exchange is the one kept for ibm.
C6_Witness ==
    /\ op = "get_tics" /\ pc = "returned"
    /\ Get(lookup) = <<WellFormedLine(NYSE, IBM), NoEqLine, WellFormedLine(nasdaq, ibm)>>
    /\ tic_map = [x \in {ibm} |-> nasdaq]

Clean(s) ==
    /\ \A n \in 1..Len(s) : s[n] # QUOTE
    /\ s # <<>> => s[1] \notin Whitespace /\ s[Len(s)] \notin Whitespace

AllClean == \A key \in DOMAIN tic_map : Clean(key) /\ Clean(tic_map[key])

\* C7 as claimed: when every consumed line with '=' is "EXCHANGE"="TICKER"
\* with optional whitespace around the '=' or around the quoted parts, no key
\* and no value of tic_map holds a double quote or starts or ends with
\* whitespace.
C7_Original ==
    (/\ op = "get_tics"
     /\ \A n \in Consumed : HasEq(LookupLine(n)) =>
            \E p \in Pairs, w \in PadShapes : LookupLine(n) = PaddedLine(p[1], p[2], w))
    => AllClean

\* C7 amended: when every consumed line with '=' is "EXCHANGE"="TICKER" with
\* whitespace only before the first quote and after the last one, no key and
\* no value of tic_map holds a double quote or starts or ends with whitespace,
\* and each such line maps lower(TICKER) to an exchange.
C7_OuterWhitespace ==
    (/\ op = "get_tics"
     /\ \A n \in Consumed : HasEq(LookupLine(n)) =>
            \E p \in Pairs, w \in {NoPad, OuterPad} :
                LookupLine(n) = PaddedLine(p[1], p[2], w))
    => /\ AllClean
       /\ \A n \in Consumed : \A p \in Pairs :
              LookupLine(n) = PaddedLine(p[1], p[2], OuterPad)
                  => Lower(p[2]) \in DOMAIN tic_map

\* C7 witness: a line with whitespace before and after it was loaded
C7_Witness ==
    /\ op = "get_tics" /\ pc = "returned"
    /\ Get(lookup) = <<PaddedLine(NYSE, IBM, OuterPad)>>
    /\ tic_map = [x \in {ibm} |-> Lower(NYSE)]

-----------------------------------------------------------------------------
(* Properties of line_to_dict *)

\* the sum of the widths of the columns before the n-th
RECURSIVE Offset(_)
Offset(n) == IF n = 1 THEN 0 ELSE Offset(n - 1) + COLWIDTHS[COLUMNS[n - 1]]

\* how many characters of a line of length len lie in [off, off + width)
Overlap(len, off, width) ==
    IF len <= off THEN 0 ELSE Min(width, len - off)

\* C5: line_to_dict returns, for a line of any length, exactly one entry per
\* column of COLUMNS; the n-th column's value is the characters of the line
\* at offsets Offset(n) .. Offset(n) + width - 1 that exist: empty when the
\* line ends at or before Offset(n), the remaining characters when it ends
\* inside the column, the full width otherwise.
C5_Decode ==
    (op = "line_to_dict" /\ pc = "returned") =>
        /\ exc = "none" /\ decoded # None
        /\ DOMAIN Get(decoded) = Range(COLUMNS)
        /\ \A n \in 1..Len(COLUMNS) :
               LET col == COLUMNS[n]
                   cnt == Overlap(Len(line), Offset(n), COLWIDTHS[col])
               IN  Get(decoded)[col] = [j \in 1..cnt |-> line[Offset(n) + j]]

\* C5 witness: a 30-character line was decoded: Volume and Date are full,
\* Adj Close holds the 5 remaining characters, the later columns are empty.
C5_Witness ==
    /\ op = "line_to_dict" /\ pc = "returned"
    /\ line = PatternLine(30, Digits)
    /\ Len(Get(decoded)["Date"]) = 11
    /\ Get(decoded)["Adj Close"] = <<"5","6","7","8","9">>
    /\ Get(decoded)["Close"] = <<>> /\ Get(decoded)["High"] = <<>>

-----------------------------------------------------------------------------
(* Properties of create_data_dict *)

Assembling == op = "create_data_dict"

\* the tickers read_dat was called with
IsRead(c) == c[1] = "read_dat"
Reads == SelectSeq(calls, IsRead)

\* C1 as claimed: a call with tickers_lst = [] reads no data file, returns no
\* document and ends, whatever the map and col_lst are, in the validation
\* error (the bare Exception verify_tickers and verif_cols raise).
C1_EmptyTickerList ==
    (Assembling /\ tickers_lst = Some(<<>>)) =>
        /\ Reads = <<>>
        /\ ret = None
        /\ pc # "returned"
        /\ pc = "raised" => exc = "Exception"

\* C2 as claimed: a call with col_lst = [] reads no data file, returns no
\* document and ends, whatever the map and tickers_lst are, in the validation
\* error; in particular it never keeps all schema columns.
C2_EmptyColumnList ==
    (Assembling /\ col_arg = Some(<<>>)) =>
        /\ Reads = <<>>
        /\ ret = None
        /\ pc # "returned"
        /\ pc = "raised" => exc = "Exception"

\* a non-empty list with an entry that is no key of the map / no schema column
HasInvalidTicker ==
    Truthy(tickers_lst) /\ \E t \in Range(Get(tickers_lst)) : t \notin DOMAIN tic_exchange_dic
HasInvalidColumn ==
    Truthy(col_arg) /\ \E c \in Range(Get(col_arg)) : c \notin Range(COLUMNS)

Before(n, call) == \E m \in 1..(n - 1) : calls[m] = call

\* C3: a call whose non-empty tickers_lst holds a ticker outside the map, or
\* whose non-empty col_lst holds a name outside COLUMNS, never calls read_dat,
\* builds and returns nothing, and when it has ended it has raised the
\* validation Exception; and in every call each read_dat comes after
\* verif_cols (for a non-empty col_lst) and verify_tickers (for a non-empty
\* tickers_lst) were called and did not raise.
C3_FailFast ==
    Assembling =>
        /\ (HasInvalidTicker \/ HasInvalidColumn) =>
               /\ Reads = <<>> /\ acc = EmptyDict /\ ret = None
               /\ pc \in {"columns", "tickers", "raised"}
               /\ pc = "raised" => exc = "Exception"
        /\ \A n \in 1..Len(calls) : IsRead(calls[n]) =>
               /\ Truthy(col_arg) =>
                      Before(n, <<"verif_cols">>) /\ ~verif_cols(col_arg)
               /\ Truthy(tickers_lst) =>
                      /\ Before(n, <<"verify_tickers">>)
                      /\ ~verify_tickers(tic_exchange_dic, tickers_lst)

\* C3 witness: tickers_lst = [aapl, baba] with baba outside the map, valid
\* columns: the call has ended in the validation error, nothing was read.
C3_Witness ==
    /\ Assembling /\ pc = "raised" /\ exc = "Exception"
    /\ DOMAIN tic_exchange_dic = {aapl}
    /\ tickers_lst = Some(<<aapl, baba>>)
    /\ col_arg = Some(<<"Date">>)
    /\ files[aapl] # None /\ files[baba] # None
    /\ calls = <<<<"verif_cols">>, <<"verify_tickers">>>>

\* C4 as claimed: a returned document has exactly the entries of tickers_lst
\* as keys when tickers_lst is given, and all keys of the map when it is
\* None; with col_lst None every record holds all six schema columns.
C4_KeySet ==
    (Assembling /\ pc = "returned") =>
        /\ DOMAIN Get(ret) = IF tickers_lst # None THEN Range(Get(tickers_lst))
                                                   ELSE DOMAIN tic_exchange_dic
        /\ col_arg = None =>
               \A t \in DOMAIN Get(ret) : \A n \in 1..Len(Get(ret)[t].data) :
                   DOMAIN Get(ret)[t].data[n] = Range(COLUMNS)

\* what C4 says short of the empty list: the same with "given" read as
\* "given and non-empty"
C4_NonEmptyList ==
    (Assembling /\ pc = "returned" /\ tickers_lst # Some(<<>>)) =>
        /\ DOMAIN Get(ret) = IF tickers_lst # None THEN Range(Get(tickers_lst))
                                                   ELSE DOMAIN tic_exchange_dic
        /\ col_arg = None =>
               \A t \in DOMAIN Get(ret) : \A n \in 1..Len(Get(ret)[t].data) :
                   DOMAIN Get(ret)[t].data[n] = Range(COLUMNS)

MissingFile(c) == IsRead(c) /\ files[c[2]] = None

\* C8: a read_dat call for a ticker without a data file is the last call of
\* the assembly: the call has ended in that IOError, nothing was returned (the
\* entries built before are dropped) and no ticker was read after it; so a
\* returned document means every target ticker had its file: none was
\* skipped.  The ticker may well be a key of the map.
C8_IOErrorPropagates ==
    Assembling =>
        /\ \A n \in 1..Len(calls) : MissingFile(calls[n]) =>
               /\ n = Len(calls)
               /\ pc = "raised" /\ exc = "IOError"
               /\ ret = None
        /\ ret # None => \A n \in 1..Len(target_ticker) : files[target_ticker[n]] # None
        /\ (pc = "raised" /\ exc = "IOError") =>
               /\ calls # <<>> /\ MissingFile(calls[Len(calls)])
               /\ ret = None

\* C8 witness: baba was read and kept, then aapl, a key of the map, has no
\* file: the call ended in the IOError with baba's entry built and dropped.
C8_Witness ==
    /\ Assembling /\ pc = "raised" /\ exc = "IOError"
    /\ DOMAIN tic_exchange_dic = {aapl, baba}
    /\ Reads = <<<<"read_dat", baba>>, <<"read_dat", aapl>>>>
    /\ files[aapl] = None
    /\ DOMAIN acc = {baba}
    /\ ret = None

\* the call of the example: map {"aapl": "nasdaq"}, a one-line data file
IsExample ==
    /\ Assembling
    /\ tic_exchange_dic = [t \in {aapl} |-> nasdaq]
    /\ tickers_lst = Some(<<aapl>>)
    /\ col_arg = Some(<<"Date", "Close">>)
    /\ files[aapl] = Some(<<ExampleLine>>)

ExampleDate == <<"2","0","2","0","-","0","1","-","0","1"," ">>
ShiftedDate == Rep(" ", 3) \o <<"1","5","0",".","0","0","0","0">>

ExampleDocument(date) ==
    [t \in {aapl} |-> [exchange |-> nasdaq, data |-> <<[Date |-> date, Close |-> <<>>]>>]]

\* C9 as claimed: the example call returns Date "2020-01-01 " and Close "".
C9_Original ==
    (IsExample /\ pc = "returned") => Get(ret) = ExampleDocument(ExampleDate)

\* C9 amended: the example call returns Date "   150.0000" and Close "": the
\* reader strips the 8 leading spaces, so the date lies at offsets 3..13 and
\* the Date column, offsets 14..24, holds what follows it.
C9_StrippedExample ==
    (IsExample /\ pc = "returned") => Get(ret) = ExampleDocument(ShiftedDate)

\* C9 witness: the example call has returned
C9_Witness == IsExample /\ pc = "returned" /\ ret # None

\* C10: in a returned document every ticker's data has one record per line
\* read_dat returned, in line order; with col_lst set (the local col_lst, not
\* None after line 146) the n-th record's keys are exactly the names of
\* col_lst and its values those of line_to_dict of the n-th line; with col_lst
\* None the n-th record is line_to_dict of the n-th line; and exchange is the
\* lower-cased entry of the map.
C10_Records ==
    (Assembling /\ pc = "returned") =>
        \A t \in DOMAIN Get(ret) :
            LET lines == ReadDat(Get(files[t]))
                data == Get(ret)[t].data
            IN  /\ Len(data) = Len(lines)
                /\ \A n \in 1..Len(lines) :
                       IF col_lst # None
                       THEN /\ DOMAIN data[n] = Range(Get(col_lst))
                            /\ \A name \in Range(Get(col_lst)) :
                                   data[n][name] = line_to_dict(lines[n])[name]
                       ELSE data[n] = line_to_dict(lines[n])
                /\ Get(ret)[t].exchange = Lower(tic_exchange_dic[t])

\* C10 witness: a document with two records for aapl, the second from a blank
\* line, projected to Date and Close, and baba's upper-case exchange lowered.
C10_Witness ==
    /\ Assembling /\ pc = "returned"
    /\ col_lst = Some(<<"Close", "Date">>)
    /\ files[aapl] = Some(<<ExampleLine, BlankDataLine>>)
    /\ DOMAIN Get(ret) = {aapl, baba}
    /\ Len(Get(ret)[aapl].data) = 2
    /\ Get(ret)[aapl].data[2] = [Date |-> <<>>, Close |-> <<>>]
    /\ tic_exchange_dic[baba] = NYSE
    /\ Get(ret)[baba].exchange = <<"n","y","s","e">>

====
